---- MODULE Spec2Model ----
(***************************************************************************)
(* Model of the time-windowed, checkpointed retrieval pipeline of          *)
(* downloader.py: TimeWindowGenerator, ProgressTracker,                    *)
(* IncrementalExporter and OvernightExtractor.extract_complete_history,    *)
(* with the checkpoint file, the output file and its temporary file as     *)
(* durable state that survives a process kill.                             *)
(***************************************************************************)
EXTENDS Integers, Sequences, FiniteSets, TLC

(***************************************************************************)
(* datetime values.  A datetime is a record of its calendar fields; tod    *)
(* is the time of day (0 is midnight).  NoneDT stands for Python's None.   *)
(***************************************************************************)
DT(y, m, d, t) == [year |-> y, month |-> m, day |-> d, tod |-> t]

NoneDT == DT(0, 0, 0, 0)

\* datetime.__lt__: chronological order, field by field.
Before(a, b) ==
    \/ a.year < b.year
    \/ a.year = b.year /\ a.month < b.month
    \/ a.year = b.year /\ a.month = b.month /\ a.day < b.day
    \/ a.year = b.year /\ a.month = b.month /\ a.day = b.day /\ a.tod < b.tod

\* Python's min(a, b) on two datetimes.
MinDT(a, b) == IF Before(b, a) THEN b ELSE a

\* date.toordinal shifted to the civil epoch: days since 1970-01-01.
ToOrdinal(d) ==
    LET y   == IF d.month <= 2 THEN d.year - 1 ELSE d.year
        era == y \div 400
        yoe == y - era * 400
        mp  == IF d.month > 2 THEN d.month - 3 ELSE d.month + 9
        doy == (153 * mp + 2) \div 5 + d.day - 1
        doe == yoe * 365 + yoe \div 4 - yoe \div 100 + doy
    IN  era * 146097 + doe - 719468

\* date.fromordinal for the same epoch, keeping the given time of day.
FromOrdinal(n, t) ==
    LET z   == n + 719468
        era == z \div 146097
        doe == z - era * 146097
        yoe == (doe - doe \div 1460 + doe \div 36524 - doe \div 146096) \div 365
        doy == doe - (365 * yoe + yoe \div 4 - yoe \div 100)
        mp  == (5 * doy + 2) \div 153
        d   == doy - (153 * mp + 2) \div 5 + 1
        m   == IF mp < 10 THEN mp + 3 ELSE mp - 9
        y   == yoe + era * 400 + (IF m <= 2 THEN 1 ELSE 0)
    IN  DT(y, m, d, t)

\* datetime - timedelta(days=n)
MinusDays(d, n) == FromOrdinal(ToOrdinal(d) - n, d.tod)

(***************************************************************************)
(* TimeWindowGenerator                                                     *)
(***************************************************************************)
\* current.replace(month=current.month + 1, day=1), with the December case.
NextMonth(current) ==
    IF current.month = 12
    THEN [current EXCEPT !.year = @ + 1, !.month = 1, !.day = 1]
    ELSE [current EXCEPT !.month = @ + 1, !.day = 1]

NextYearKeepsMonth(current) == [current EXCEPT !.year = @ + 1]

\* current.replace(year=current.year + 1, month=1, day=1)
NextYear(current) == [current EXCEPT !.year = @ + 1, !.month = 1, !.day = 1]

WindowEndUnclamped(next, end_date) == next

\* window_end = min(next_month, end_date)
WindowEnd(next, end_date) == MinDT(next, end_date)

RECURSIVE generate_monthly_windows(_, _)
generate_monthly_windows(current, end_date) ==
    IF ~Before(current, end_date) THEN <<>>
    ELSE <<<<current, WindowEnd(NextMonth(current), end_date)>>>>
            \o generate_monthly_windows(NextMonth(current), end_date)

RECURSIVE generate_yearly_windows(_, _)
generate_yearly_windows(current, end_date) ==
    IF ~Before(current, end_date) THEN <<>>
    ELSE <<<<current, WindowEnd(NextYear(current), end_date)>>>>
            \o generate_yearly_windows(NextYear(current), end_date)


(***************************************************************************)
(* Bounds of the model                                                     *)
(***************************************************************************)
\* Process starts (first run plus restarts) explored.
MaxRuns == 2

\* Longest range explored, in windows (ranges cut into more are not started).
MaxWindows == 12

\* Resolution of the time of day: tod ranges over 0 .. TodPerDay - 1.
TodPerDay == 2

(***************************************************************************)
(* Program constants                                                       *)
(***************************************************************************)
\* add_post: "if len(self.posts) % 10 == 0: self.save()"
SaveEvery == 10

\* extract_complete_history: timedelta(days=365*10)
FallbackDays == 3650

\* Delays are counted in tenths of a second.
\* RateLimitHandler.__init__: base_delay: float = 0.5
DefaultBaseDelay == 5

\* RateLimitHandler.__init__: max_delay: float = 300.0
DefaultMaxDelay == 3000

\* AnonymousRedditClient.__init__: RateLimitHandler(base_delay=2.0)
AnonymousBaseDelay == 20

\* AnonymousRedditClient.search_time_window: max_attempts = 40
max_attempts == 40

(***************************************************************************)
(* The upstream listing and the environment of a run                       *)
(***************************************************************************)
\* created_utc of an upstream item: a timestamp, as the API reports it.
Timestamp(d) == ToOrdinal(d) * TodPerDay + d.tod

\* datetime.fromtimestamp(created_utc)
FromTimestamp(ts) == FromOrdinal(ts \div TodPerDay, ts % TodPerDay)

Item(id, d, ok) == [id |-> id, created_utc |-> Timestamp(d), parses |-> ok]

\* What the upstream holds, newest first (sort="new").  "b" was created on the
\* first of a month at the time of day of StartArg, the boundary of two monthly
\* windows of a range that starts at StartArg; "x" is a record the parser
\* rejects.
ShortListing ==
    << Item("x", DT(2008, 2, 13, 0), FALSE),
       Item("c", DT(2008, 2, 11, 1), TRUE),
       Item("b", DT(2008, 2, 1, 1), TRUE),
       Item("a", DT(2008, 1, 10, 0), TRUE) >>

\* The same with enough records for the exporter's periodic save.
LongListing ==
    << Item("l", DT(2008, 2, 21, 0), TRUE),
       Item("k", DT(2008, 2, 20, 1), TRUE),
       Item("j", DT(2008, 2, 19, 0), TRUE),
       Item("i", DT(2008, 2, 18, 0), TRUE),
       Item("h", DT(2008, 2, 17, 1), TRUE),
       Item("g", DT(2008, 2, 16, 0), TRUE),
       Item("f", DT(2008, 2, 15, 0), TRUE),
       Item("e", DT(2008, 2, 14, 0), TRUE) >> \o
    << ShortListing[1],
       Item("d", DT(2008, 2, 12, 0), TRUE) >> \o
    Tail(ShortListing)

Ids == {LongListing[n].id : n \in 1..Len(LongListing)}

\* datetime.now()
Now == DT(2008, 3, 10, 1)

\* Values given for --start-date and --end-date.
StartArg == DT(2008, 1, 15, 1)
EndArg   == DT(2008, 3, 1, 0)

\* AnonymousRedditClient.get_subreddit_creation_date: always 2008-01-01.
\* RedditClient.get_subreddit_creation_date: the reported creation date, or
\* 2005-06-23 when the lookup fails.
CreationDates(anonymous) ==
    IF anonymous THEN {DT(2008, 1, 1, 0)}
    ELSE {DT(2008, 1, 20, 1), DT(2005, 6, 23, 0)}

Range(s) == {s[n] : n \in 1..Len(s)}

NoDup(s) == \A m, n \in 1..Len(s) : s[m] = s[n] => m = n

(***************************************************************************)
(* Files.  A file is missing, complete, or partial (a write that was cut   *)
(* short).  The checkpoint is JSON text; the output is a sheet of rows.    *)
(***************************************************************************)
MissingSheet      == [kind |-> "missing",  rows |-> <<>>]
PartialSheet      == [kind |-> "partial",  rows |-> <<>>]
CompleteSheet(ps) == [kind |-> "complete", rows |-> ps]

MissingJson == [kind |-> "missing", processed_ids |-> <<>>, last_window_end |-> <<>>]
CorruptJson == [kind |-> "corrupt", processed_ids |-> <<>>, last_window_end |-> <<>>]

\* list(self.processed_ids): the members in some order.
RECURSIVE SetToList(_)
SetToList(S) ==
    IF S = {} THEN <<>>
    ELSE LET x == CHOOSE y \in S : TRUE IN <<x>> \o SetToList(S \ {x})

\* datetime.isoformat(): the text of the fields; None is written as null.
IsoFormat(d) == IF d = NoneDT THEN <<>> ELSE <<d.year, d.month, d.day, d.tod>>

\* datetime.fromisoformat(text)
FromIsoFormat(t) == DT(t[1], t[2], t[3], t[4])

DumpWithoutIds(ids, lwe) ==
    [kind |-> "json", processed_ids |-> <<>>, last_window_end |-> IsoFormat(lwe)]

DumpWithoutWindow(ids, lwe) ==
    [kind |-> "json", processed_ids |-> SetToList(ids), last_window_end |-> <<>>]

\* save_checkpoint: the data dictionary that json.dump writes.
Dump(ids, lwe) ==
    [kind |-> "json", processed_ids |-> SetToList(ids),
     last_window_end |-> IsoFormat(lwe)]

\* _load_checkpoint on a readable file: set(data.get('processed_ids', []))
LoadIds(f) == Range(f.processed_ids)

\* _load_checkpoint on a readable file: fromisoformat unless the value is null.
LoadWindowEnd(f) ==
    IF f.last_window_end = <<>> THEN NoneDT ELSE FromIsoFormat(f.last_window_end)


(***************************************************************************)
(* Pure steps of the pipeline                                              *)
(***************************************************************************)
MarkProcessedForgets(ids, post_id) == ids

\* ProgressTracker.mark_processed
mark_processed(ids, post_id) == ids \cup {post_id}

IsProcessedNever(ids, post_id) == FALSE

\* ProgressTracker.is_processed
IsProcessed(ids, post_id) == post_id \in ids

\* PostParser.parse_submission: the post built from a raw record.
ParseSubmission(submission) ==
    [url |-> submission.id, date |-> FromTimestamp(submission.created_utc)]

\* The client's scan of the listing for one window: an item newer than the
\* window end is passed over, the scan stops at the first item older than the
\* window start, every other item is kept.
RECURSIVE ScanListing(_, _, _)
ScanListing(listing, start_date, end_date) ==
    IF listing = <<>> THEN <<>>
    ELSE LET submission_date == FromTimestamp(Head(listing).created_utc) IN
         IF Before(end_date, submission_date)
         THEN ScanListing(Tail(listing), start_date, end_date)
         ELSE IF Before(submission_date, start_date) THEN <<>>
         ELSE <<Head(listing)>> \o ScanListing(Tail(listing), start_date, end_date)

ResolveStartIgnoringCheckpoint(start_arg, from_beginning, creation, end_date, lwe) ==
    IF from_beginning /\ start_arg = NoneDT THEN creation
    ELSE IF start_arg # NoneDT THEN start_arg
    ELSE MinusDays(end_date, FallbackDays)

\* extract_complete_history: the effective start of the range.
ResolveStart(start_arg, from_beginning, creation, end_date, lwe) ==
    IF lwe # NoneDT THEN lwe
    ELSE IF from_beginning /\ start_arg = NoneDT THEN creation
    ELSE IF start_arg # NoneDT THEN start_arg
    ELSE MinusDays(end_date, FallbackDays)

\* extract_complete_history: "end_date = end_date or datetime.now()"
ResolveEnd(end_arg) == IF end_arg # NoneDT THEN end_arg ELSE Now

AfterWindowErrorBreaks(i, n) == n + 1

\* except Exception in the window loop: "continue" takes the next window.
AfterWindowError(i, n) == i + 1

AfterParseFailureAborts(submissions) == <<>>

\* parse_submission returned None: "if post:" is false and the for loop over
\* the submissions takes the next record.
AfterParseFailure(submissions) == Tail(submissions)

FlushDueLate(n) == n % (SaveEvery + 1) = 0

\* IncrementalExporter.add_post: "if len(self.posts) % 10 == 0" after the
\* append, n being the length of the buffer with the new post in it.
FlushDue(n) == n % SaveEvery = 0

FinalizeSkipsSave(ps) == "ckpt_open"

\* _finalize: self.exporter.save() first, which returns at once on an empty
\* buffer, then self.progress.save_checkpoint().
FinalizeSaves(ps) == IF ps = <<>> THEN "ckpt_open" ELSE "save_write"

UpdateWindowToStart(window) == window[1]

\* "self.progress.update_window(window_end)" for the window
\* (window_start, window_end) of the loop.
UpdateWindowTo(window) == window[2]

WriteStartsOnDestination(out, tmp) == [out |-> PartialSheet, tmp |-> tmp]

\* IncrementalExporter.save: df.to_excel(self.temp_path) starts writing the
\* temporary file; the destination is not touched.
WriteStarts(out, tmp) == [out |-> out, tmp |-> PartialSheet]

(***************************************************************************)
(* State                                                                   *)
(***************************************************************************)
VARIABLES
    checkpoint_file,  \* extraction_progress.json on disk
    output_file,      \* the output sheet on disk
    temp_file,        \* the exporter's temporary file on disk
    pc,               \* where the process is; "idle" and the end states: no process
    caller,           \* the frame above save() / save_checkpoint(): "add_post",
                      \* "update_window", "finalize" (_finalize at the end of the
                      \* loop) or "except" (_finalize in the interrupt handler)
    listing,          \* what the upstream holds
    anonymous,        \* OvernightExtractor.anonymous: the mode the job is deployed in
    args,             \* arguments of extract_complete_history
    processed_ids,    \* ProgressTracker.processed_ids
    last_window_end,  \* ProgressTracker.last_window_end
    posts,            \* IncrementalExporter.posts
    start_date,       \* effective start of the range
    end_date,         \* effective end of the range
    windows,          \* the generated windows
    i,                \* index of the window of the for loop
    submissions,      \* records of the current window not handled yet
    total_posts,      \* total_posts of extract_complete_history
    runs,             \* history: process starts so far
    finalize_calls,   \* history: calls of _finalize in this run
    accepted,         \* history: per identifier, times it was accepted (capped at 2)
    skipped,          \* history: identifiers skipped as already processed in this run
    out_at_start,     \* history: identifiers in the output file when the run started
    loaded_window_end,\* history: last_window_end as loaded by this run
    creation,         \* history: what get_subreddit_creation_date returned
    persisted_ids,    \* history: processed_ids at the last completed save_checkpoint
    persisted_window_end, \* history: last_window_end at that save_checkpoint
    last_commit,      \* history: argument of the last update_window that returned
    window_failed,    \* history: a window of this run ended in the loop's except Exception
    returned,         \* history: what search_time_window returned for the window
    retrieved,        \* history: every record a search of this run returned
    base_delay,       \* RateLimitHandler.base_delay
    max_delay,        \* RateLimitHandler.max_delay
    current_delay,    \* RateLimitHandler.current_delay
    request_count,    \* RateLimitHandler.request_count
    last_op,          \* history: the RateLimitHandler method called last
    prev_delay,       \* history: current_delay before that call
    last_sleep,       \* history: what that call passed to time.sleep (0: no sleep)
    burst,            \* history: wait() calls in a row that did not sleep
    cpc,              \* where search_time_window is; "ready": no call in progress
    attempts,         \* pages fetched by the call in progress (attempts in the
                      \* anonymous client)
    all_results,      \* number of records the call has collected
    outcome,          \* what the last call gave its caller
    calls,            \* history: calls of search_time_window so far
    waited,           \* history: wait() was called since the last request
    failure,          \* history: how the upstream failed the call, if it did
    rate_limited,     \* history: handle_rate_limit() ran in the call
    posts_checked,    \* RedditClient.search_time_window: posts_checked
    raw,              \* PostParser: the raw record given to parse_submission
    parsed            \* PostParser: what parse_submission returned

disk   == <<checkpoint_file, output_file, temp_file>>
memory == <<args, processed_ids, last_window_end, posts, start_date,
            end_date, windows, i, submissions, total_posts>>
ghosts == <<runs, finalize_calls, accepted, skipped, out_at_start,
            loaded_window_end, creation, persisted_ids, persisted_window_end,
            last_commit, window_failed, returned, retrieved>>
env    == <<listing, anonymous>>
limiter == <<base_delay, max_delay, current_delay, request_count, last_op,
             prev_delay, last_sleep, burst>>
search == <<cpc, attempts, all_results, outcome, calls, waited, failure,
            rate_limited, posts_checked>>
client == <<limiter, search>>
parsing == <<raw, parsed>>
vars   == <<disk, pc, caller, env, parsing, memory, ghosts, client>>

NoArgs == [start_date |-> NoneDT, end_date |-> NoneDT,
           window_size |-> "monthly", from_beginning |-> TRUE]

Args(s, e, w, fb) ==
    [start_date |-> s, end_date |-> e, window_size |-> w, from_beginning |-> fb]

\* The argument combinations explored (NoneDT: the argument is not given).
ArgSets ==
    { Args(NoneDT,   EndArg, "yearly",  TRUE),
      Args(NoneDT,   NoneDT, "yearly",  FALSE),
      Args(StartArg, NoneDT, "monthly", TRUE) }

\* The long listing is explored under one of them.
ArgChoices(l) ==
    IF l = LongListing THEN {Args(StartArg, NoneDT, "monthly", TRUE)} ELSE ArgSets

\* An upper bound of the number of windows a range is cut into: the calendar
\* months (years) it touches.
Span(window_size, s, e) ==
    IF window_size = "monthly"
    THEN (e.year * 12 + e.month) - (s.year * 12 + s.month) + 1
    ELSE e.year - s.year + 1

Running == pc \notin {"idle", "done", "interrupted", "crashed", "fatal"}

SavePcs == {"save_write", "save_writing", "save_replace"}
CkptPcs == {"ckpt_open", "ckpt_dump"}

\* The statements inside the try block of the window loop.
InTry ==
    \/ pc \in {"search", "records", "mark"}
    \/ pc \in SavePcs /\ caller = "add_post"
    \/ pc \in CkptPcs /\ caller = "update_window"

\* The process has ended: nothing of its memory is left.
ProcessGone ==
    /\ caller' = "none"
    /\ args' = NoArgs
    /\ processed_ids' = {}
    /\ last_window_end' = NoneDT
    /\ posts' = <<>>
    /\ start_date' = NoneDT
    /\ end_date' = NoneDT
    /\ windows' = <<>>
    /\ i' = 1
    /\ submissions' = <<>>
    /\ total_posts' = 0
    /\ skipped' = {}
    /\ out_at_start' = {}
    /\ loaded_window_end' = NoneDT
    /\ creation' = NoneDT
    /\ last_commit' = NoneDT
    /\ window_failed' = FALSE
    /\ returned' = <<>>
    /\ retrieved' = {}

(***************************************************************************)
(* RateLimitHandler                                                        *)
(***************************************************************************)
\* The count up to which a run of wait() calls without a sleep is followed.
MaxBurst == 3

Min(a, b) == IF a < b THEN a ELSE b

BackoffUncapped(delay, cap) == delay * 2

\* handle_rate_limit: min(self.current_delay * 2, self.max_delay)
Backoff(delay, cap) == Min(delay * 2, cap)

BackoffSleepBase(delay, base) == base

\* handle_rate_limit: time.sleep(self.current_delay)
BackoffSleep(delay, base) == delay

\* wait: "if self.request_count % 2 == 0: time.sleep(self.base_delay)"
WaitSleep(count, base) == IF count % 2 = 0 THEN base ELSE 0

\* RateLimitHandler.__init__(base_delay, max_delay)
LimiterNew(base, cap) ==
    /\ base_delay = base
    /\ max_delay = cap
    /\ current_delay = base
    /\ request_count = 0
    /\ last_op = "init"
    /\ prev_delay = base
    /\ last_sleep = 0
    /\ burst = 0

\* RateLimitHandler.wait
wait ==
    /\ request_count' = request_count + 1
    /\ last_sleep' = WaitSleep(request_count', base_delay)
    /\ burst' = IF last_sleep' # 0 THEN 0 ELSE Min(burst + 1, MaxBurst)
    /\ last_op' = "wait"
    /\ prev_delay' = current_delay
    /\ UNCHANGED <<base_delay, max_delay, current_delay>>

\* RateLimitHandler.handle_rate_limit
handle_rate_limit ==
    /\ last_sleep' = BackoffSleep(current_delay, base_delay)
    /\ current_delay' = Backoff(current_delay, max_delay)
    /\ last_op' = "handle_rate_limit"
    /\ prev_delay' = current_delay
    /\ UNCHANGED <<base_delay, max_delay, request_count, burst>>

\* RateLimitHandler.reset_delay
reset_delay ==
    /\ current_delay' = base_delay
    /\ request_count' = 0
    /\ last_op' = "reset_delay"
    /\ prev_delay' = current_delay
    /\ last_sleep' = 0
    /\ UNCHANGED <<base_delay, max_delay, burst>>

\* The client's constructor: RateLimitHandler(base_delay=2.0) in the anonymous
\* client, RateLimitHandler() in the authenticated one.
ClientLimiter(anon) ==
    IF anon THEN LimiterNew(AnonymousBaseDelay, DefaultMaxDelay)
    ELSE LimiterNew(DefaultBaseDelay, DefaultMaxDelay)

NoOutcome == [kind |-> "none", n |-> 0]
Raised == [kind |-> "raised", n |-> 0]
List(n) == [kind |-> "list", n |-> n]

\* No call of search_time_window is in progress and none was made.
SearchFresh ==
    /\ cpc = "ready"
    /\ attempts = 0
    /\ all_results = 0
    /\ outcome = NoOutcome
    /\ calls = 0
    /\ waited = FALSE
    /\ failure = "none"
    /\ rate_limited = FALSE
    /\ posts_checked = 0

(***************************************************************************)
(* PostParser.  A raw record is a rich object (a PRAW submission) or a     *)
(* flat dictionary (a JSON "data" object).  A Python value carries its     *)
(* type; a text is a sequence of pieces.                                   *)
(***************************************************************************)
Str(s) == [type |-> "str", v |-> s]
None   == [type |-> "NoneType", v |-> ""]

\* An attribute whose access raises.
Unreadable == [type |-> "raises", v |-> ""]

\* A key of a dictionary: absent, or present with a value.
Absent     == [present |-> FALSE, value |-> None]
Present(x) == [present |-> TRUE, value |-> x]

\* dict.get(key, default)
Get(key, default) == IF key.present THEN key.value ELSE default

\* parse_submission has not been called.
NoRaw     == [shape |-> "none"]
NotParsed == [kind |-> "pending"]

\* parse_submission returned None.
NonePost == [kind |-> "None"]

ParseFresh ==
    /\ raw = NoRaw
    /\ parsed = NotParsed

\* str.join: the texts with the separator between them.
RECURSIVE Join(_, _)
Join(sep, texts) ==
    IF texts = <<>> THEN <<>>
    ELSE IF Len(texts) = 1 THEN texts[1]
    ELSE texts[1] \o <<sep>> \o Join(sep, Tail(texts))

\* f"{author}\n{comment.body}" with
\* author = str(comment.author) if comment.author else "[deleted]"
Entry(comment) ==
    <<IF comment.author # None THEN comment.author.v ELSE "[deleted]",
      "\n", comment.body.v>>

\* The try block of the loop succeeds: comment.body can be read.
Readable(comment) == comment.body.type = "str"

RECURSIVE Entries(_)
Entries(comments) ==
    IF comments = <<>> THEN <<>>
    ELSE (IF Readable(Head(comments)) THEN <<Entry(Head(comments))>> ELSE <<>>)
            \o Entries(Tail(comments))

\* PostParser._extract_comments: "for comment in comment_forest", which
\* yields the top-level comments of the forest, then "\n\n".join(comments).
extract_comments(comment_forest) == Join("\n\n", Entries(comment_forest))

ParsePushshiftStrict(data) ==
    IF ~data.created_utc.present THEN NonePost
    ELSE [kind |-> "post",
          date |-> FromTimestamp(data.created_utc.value),
          user |-> Get(data.author, Str("[deleted]")),
          text_comments |-> <<>>]

\* PostParser.parse_pushshift_submission
parse_pushshift_submission(data) ==
    [kind |-> "post",
     date |-> FromTimestamp(Get(data.created_utc, 0)),
     user |-> Get(data.author, Str("[deleted]")),
     text_comments |-> <<>>]

\* PostParser.parse_submission: a dictionary goes to
\* parse_pushshift_submission; for an object, any exception gives None.
parse_submission(submission) ==
    IF submission.shape = "flat" THEN parse_pushshift_submission(submission)
    ELSE IF submission.raises THEN NonePost
    ELSE [kind |-> "post",
          date |-> FromTimestamp(submission.created_utc),
          user |-> IF submission.author # None THEN Str(submission.author.v)
                   ELSE Str("[deleted]"),
          text_comments |-> extract_comments(submission.comments)]

\* No process yet, no file on disk.
Fresh ==
    /\ checkpoint_file = MissingJson
    /\ output_file = MissingSheet
    /\ temp_file = MissingSheet
    /\ pc = "idle"
    /\ caller = "none"
    /\ args = NoArgs
    /\ processed_ids = {}
    /\ last_window_end = NoneDT
    /\ posts = <<>>
    /\ windows = <<>>
    /\ i = 1
    /\ submissions = <<>>
    /\ total_posts = 0
    /\ runs = 0
    /\ finalize_calls = 0
    /\ accepted = [id \in Ids |-> 0]
    /\ skipped = {}
    /\ out_at_start = {}
    /\ loaded_window_end = NoneDT
    /\ creation = NoneDT
    /\ persisted_ids = {}
    /\ persisted_window_end = NoneDT
    /\ last_commit = NoneDT
    /\ window_failed = FALSE
    /\ returned = <<>>
    /\ retrieved = {}

Init ==
    /\ Fresh
    /\ start_date = NoneDT
    /\ end_date = NoneDT
    /\ listing = ShortListing
    /\ anonymous \in BOOLEAN
    /\ ClientLimiter(anonymous)
    /\ SearchFresh
    /\ ParseFresh

(***************************************************************************)
(* OvernightExtractor.__init__: a new process.  IncrementalExporter starts *)
(* with an empty buffer (the existing output is only counted), and         *)
(* ProgressTracker loads the checkpoint: a missing file leaves the empty   *)
(* state, a file json.load cannot read raises out of the constructor.      *)
(***************************************************************************)
Construct ==
    /\ ~Running
    /\ runs < MaxRuns
    /\ runs' = runs + 1
    /\ args' = NoArgs
    /\ posts' = <<>>
    /\ out_at_start' = {output_file.rows[n].url : n \in 1..Len(output_file.rows)}
    /\ IF checkpoint_file.kind = "corrupt"
       THEN /\ pc' = "fatal"
            /\ processed_ids' = {}
            /\ last_window_end' = NoneDT
       ELSE /\ pc' = "resolve"
            /\ processed_ids' =
                 IF checkpoint_file.kind = "json" THEN LoadIds(checkpoint_file) ELSE {}
            /\ last_window_end' =
                 IF checkpoint_file.kind = "json" THEN LoadWindowEnd(checkpoint_file)
                 ELSE NoneDT
    /\ loaded_window_end' = last_window_end'
    /\ caller' = "none"
    /\ start_date' = NoneDT
    /\ end_date' = NoneDT
    /\ windows' = <<>>
    /\ i' = 1
    /\ submissions' = <<>>
    /\ total_posts' = 0
    /\ finalize_calls' = 0
    /\ skipped' = {}
    /\ creation' = NoneDT
    /\ last_commit' = NoneDT
    /\ window_failed' = FALSE
    /\ returned' = <<>>
    /\ retrieved' = {}
    /\ UNCHANGED <<client, disk, env, parsing, accepted, persisted_ids, persisted_window_end>>

(***************************************************************************)
(* extract_complete_history up to the for loop: the effective range and    *)
(* the windows.  c is what get_subreddit_creation_date returns if called.  *)
(***************************************************************************)
ResolveRange(a, c) ==
    /\ pc = "resolve"
    /\ args' = a
    /\ creation' = IF a.from_beginning /\ a.start_date = NoneDT THEN c ELSE NoneDT
    /\ end_date' = ResolveEnd(a.end_date)
    /\ start_date' = ResolveStart(a.start_date, a.from_beginning, c, end_date',
                                  last_window_end)
    /\ Span(a.window_size, start_date', end_date') <= MaxWindows
    /\ windows' = IF a.window_size = "monthly"
                  THEN generate_monthly_windows(start_date', end_date')
                  ELSE generate_yearly_windows(start_date', end_date')
    /\ i' = 1
    /\ total_posts' = 0
    /\ pc' = "loop"
    /\ UNCHANGED <<client, disk, caller, env, parsing, processed_ids, last_window_end, posts,
                   submissions, runs, finalize_calls, accepted, skipped,
                   out_at_start, loaded_window_end, persisted_ids, persisted_window_end, last_commit, window_failed, returned, retrieved>>

\* The for loop takes the next window.
NextWindow ==
    /\ pc = "loop"
    /\ i <= Len(windows)
    /\ pc' = "search"
    /\ UNCHANGED <<client, disk, caller, env, parsing, memory, ghosts>>

\* The for loop is exhausted: self._finalize(total_posts) after the loop.
LoopEnds ==
    /\ pc = "loop"
    /\ i > Len(windows)
    /\ pc' = "finalize"
    /\ caller' = "finalize"
    /\ finalize_calls' = finalize_calls + 1
    /\ UNCHANGED <<client, disk, env, parsing, memory, runs, accepted, skipped, out_at_start,
                   loaded_window_end, creation, persisted_ids, persisted_window_end,
                   last_commit, window_failed, returned, retrieved>>

\* client.search_time_window returns the records of the window.
SearchReturns ==
    /\ pc = "search"
    /\ submissions' = ScanListing(listing, windows[i][1], windows[i][2])
    /\ returned' = submissions'
    /\ retrieved' = retrieved \cup Range(submissions')
    /\ pc' = "records"
    /\ UNCHANGED <<client, disk, caller, env, parsing, args, processed_ids, last_window_end,
                   posts, start_date, end_date, windows, i, total_posts,
                   runs, finalize_calls, accepted, skipped, out_at_start,
                   loaded_window_end, creation, persisted_ids,
                   persisted_window_end, last_commit, window_failed>>

\* client.search_time_window catches an error of the request and returns [].
SearchSwallowsError ==
    /\ pc = "search"
    /\ submissions' = <<>>
    /\ returned' = submissions'
    /\ retrieved' = retrieved \cup Range(submissions')
    /\ pc' = "records"
    /\ UNCHANGED <<client, disk, caller, env, parsing, args, processed_ids, last_window_end,
                   posts, start_date, end_date, windows, i, total_posts,
                   runs, finalize_calls, accepted, skipped, out_at_start,
                   loaded_window_end, creation, persisted_ids,
                   persisted_window_end, last_commit, window_failed>>

\* RedditClient.search_time_window re-raises a RedditAPIException that is no
\* rate limit; the loop's "except Exception" logs it and continues.
SearchRaises ==
    /\ pc = "search"
    /\ ~anonymous
    /\ i' = AfterWindowError(i, Len(windows))
    /\ pc' = "loop"
    /\ window_failed' = TRUE
    /\ UNCHANGED <<client, disk, caller, env, parsing, args, processed_ids, last_window_end,
                   posts, start_date, end_date, windows, submissions, total_posts,
                   runs, finalize_calls, accepted, skipped, out_at_start,
                   loaded_window_end, creation, persisted_ids,
                   persisted_window_end, last_commit, returned, retrieved>>

\* One record of the window: skipped when already processed or when the
\* parser returns None, otherwise exporter.add_post(post), which appends and
\* calls save() on every SaveEvery-th post.
HandleRecord ==
    /\ pc = "records"
    /\ submissions # <<>>
    /\ LET submission == Head(submissions) IN
       IF IsProcessed(processed_ids, submission.id)
       THEN /\ submissions' = Tail(submissions)
            /\ skipped' = skipped \cup {submission.id}
            /\ UNCHANGED <<pc, caller, posts>>
       ELSE IF ~submission.parses
       THEN /\ submissions' = AfterParseFailure(submissions)
            /\ UNCHANGED <<pc, caller, posts, skipped>>
       ELSE /\ posts' = Append(posts, ParseSubmission(submission))
            /\ caller' = "add_post"
            /\ pc' = IF FlushDue(Len(posts')) THEN "save_write" ELSE "mark"
            /\ UNCHANGED <<submissions, skipped>>
    /\ UNCHANGED <<client, disk, env, parsing, args, processed_ids, last_window_end,
                   start_date, end_date, windows, i, total_posts, runs,
                   finalize_calls, accepted, out_at_start, loaded_window_end,
                   creation, persisted_ids, persisted_window_end, last_commit, window_failed, returned, retrieved>>

\* progress.mark_processed(sub_id) and the counters, after add_post returned.
MarkProcessed ==
    /\ pc = "mark"
    /\ LET sub_id == Head(submissions).id IN
       /\ processed_ids' = mark_processed(processed_ids, sub_id)
       /\ accepted' = [accepted EXCEPT ![sub_id] = IF @ < 2 THEN @ + 1 ELSE @]
    /\ total_posts' = total_posts + 1
    /\ submissions' = Tail(submissions)
    /\ pc' = "records"
    /\ UNCHANGED <<client, disk, caller, env, parsing, args, last_window_end, posts,
                   start_date, end_date, windows, i, runs, finalize_calls,
                   skipped, out_at_start, loaded_window_end, creation,
                   persisted_ids, persisted_window_end, last_commit, window_failed, returned, retrieved>>

\* progress.update_window(window_end): sets the field, then save_checkpoint().
UpdateWindow ==
    /\ pc = "records"
    /\ submissions = <<>>
    /\ last_window_end' = UpdateWindowTo(windows[i])
    /\ caller' = "update_window"
    /\ pc' = "ckpt_open"
    /\ UNCHANGED <<client, disk, env, parsing, args, processed_ids, posts, start_date,
                   end_date, windows, i, submissions, total_posts, ghosts>>

\* save_checkpoint: open(self.checkpoint_file, 'w') truncates the file.
CheckpointOpen ==
    /\ pc = "ckpt_open"
    /\ checkpoint_file' = CorruptJson
    /\ pc' = "ckpt_dump"
    /\ UNCHANGED <<client, output_file, temp_file, caller, env, parsing, memory, ghosts>>

\* save_checkpoint in update_window: json.dump and the close of the file;
\* update_window returns and the loop goes on.
CheckpointDump ==
    /\ pc = "ckpt_dump"
    /\ caller = "update_window"
    /\ checkpoint_file' = Dump(processed_ids, last_window_end)
    /\ persisted_ids' = processed_ids
    /\ persisted_window_end' = last_window_end
    /\ pc' = "loop"
    /\ i' = i + 1
    /\ last_commit' = last_window_end
    /\ UNCHANGED <<window_failed, returned, retrieved>>
    /\ UNCHANGED <<client, output_file, temp_file, caller, env, parsing, args, processed_ids,
                   last_window_end, posts, start_date, end_date, windows,
                   submissions, total_posts, runs, finalize_calls, accepted,
                   skipped, out_at_start, loaded_window_end, creation>>

\* save_checkpoint in _finalize: json.dump and the close of the file; the
\* summary is logged and the run ends (the interrupt handler re-raises).
FinalizeDump ==
    /\ pc = "ckpt_dump"
    /\ caller \in {"finalize", "except"}
    /\ checkpoint_file' = Dump(processed_ids, last_window_end)
    /\ persisted_ids' = processed_ids
    /\ persisted_window_end' = last_window_end
    /\ pc' = IF caller = "except" THEN "interrupted" ELSE "done"
    /\ ProcessGone
    /\ UNCHANGED <<client, output_file, temp_file, env, parsing, runs, finalize_calls, accepted>>

\* _finalize: exporter.save() (nothing to do on an empty buffer), then
\* progress.save_checkpoint().
Finalize ==
    /\ pc = "finalize"
    /\ pc' = FinalizeSaves(posts)
    /\ UNCHANGED <<client, disk, caller, env, parsing, memory, ghosts>>

\* save: df.to_excel(self.temp_path) begins.
SaveBeginWrite ==
    /\ pc = "save_write"
    /\ output_file' = WriteStarts(output_file, temp_file).out
    /\ temp_file' = WriteStarts(output_file, temp_file).tmp
    /\ pc' = "save_writing"
    /\ UNCHANGED <<client, checkpoint_file, caller, env, parsing, memory, ghosts>>

\* save: df.to_excel(self.temp_path) completes: the whole buffer is in the file.
SaveFinishWrite ==
    /\ pc = "save_writing"
    /\ temp_file' = CompleteSheet(posts)
    /\ pc' = "save_replace"
    /\ UNCHANGED <<client, checkpoint_file, output_file, caller, env, parsing, memory, ghosts>>

\* save: self.temp_path.replace(self.output_path), an atomic rename.
SaveReplace ==
    /\ pc = "save_replace"
    /\ output_file' = temp_file
    /\ temp_file' = MissingSheet
    /\ pc' = IF caller = "add_post" THEN "mark" ELSE "ckpt_open"
    /\ UNCHANGED <<client, checkpoint_file, caller, env, parsing, memory, ghosts>>

\* KeyboardInterrupt inside the try block: the handler calls _finalize and
\* re-raises.
InterruptInTry ==
    /\ Running
    /\ InTry
    /\ pc' = "finalize"
    /\ caller' = "except"
    /\ finalize_calls' = finalize_calls + 1
    /\ UNCHANGED <<client, disk, env, parsing, memory, runs, accepted, skipped, out_at_start,
                   loaded_window_end, creation, persisted_ids, persisted_window_end,
                   last_commit, window_failed, returned, retrieved>>

\* KeyboardInterrupt anywhere else (before the loop, between two windows, in
\* _finalize): no handler, it propagates and ends the process.
InterruptOutsideTry ==
    /\ Running
    /\ ~InTry
    /\ pc' = "interrupted"
    /\ ProcessGone
    /\ UNCHANGED <<client, disk, env, parsing, runs, finalize_calls, accepted, persisted_ids, persisted_window_end>>

\* The process is killed: memory is lost, the files stay as they are.
Crash ==
    /\ Running
    /\ pc' = "crashed"
    /\ ProcessGone
    /\ finalize_calls' = 0
    /\ UNCHANGED <<client, disk, env, parsing, runs, accepted, persisted_ids, persisted_window_end>>

Next ==
    \/ Construct
    \/ \E a \in ArgChoices(listing) : \E c \in CreationDates(anonymous) :
          ResolveRange(a, c)
    \/ NextWindow
    \/ LoopEnds
    \/ SearchReturns
    \/ SearchSwallowsError
    \/ SearchRaises
    \/ HandleRecord
    \/ MarkProcessed
    \/ UpdateWindow
    \/ CheckpointOpen
    \/ CheckpointDump
    \/ FinalizeDump
    \/ Finalize
    \/ SaveBeginWrite
    \/ SaveFinishWrite
    \/ SaveReplace
    \/ InterruptInTry
    \/ InterruptOutsideTry
    \/ Crash

Spec == Init /\ [][Next]_vars


\* The same pipeline over the long listing, in authenticated mode.
InitFlush ==
    /\ Fresh
    /\ start_date = NoneDT
    /\ end_date = NoneDT
    /\ listing = LongListing
    /\ anonymous = FALSE
    /\ ClientLimiter(anonymous)
    /\ SearchFresh
    /\ ParseFresh

SpecFlush == InitFlush /\ [][Next]_vars

(***************************************************************************)
(* TimeWindowGenerator on its own: one call for each start < end.          *)
(***************************************************************************)
\* Years before Now.year that the generator's inputs reach back.
YearSpan == 1

WinDates ==
    {DT(y, m, d, t) : y \in (Now.year - YearSpan)..Now.year, m \in 1..12,
                      d \in {1, 15, 28}, t \in 0..(TodPerDay - 1)}

\* The range of the window test: 2023-01-01 to 2023-06-01.
TestStart == DT(2023, 1, 1, 0)
TestEnd   == DT(2023, 6, 1, 0)

InitWin ==
    /\ Fresh
    /\ listing = ShortListing
    /\ anonymous = FALSE
    /\ ClientLimiter(anonymous)
    /\ SearchFresh
    /\ ParseFresh
    /\ \E r \in (WinDates \X WinDates) \cup {<<TestStart, TestEnd>>} :
        LET s == r[1]
            e == r[2] IN
          /\ Before(s, e)
          /\ start_date = s
          /\ end_date = e

\* TimeWindowGenerator.generate_monthly_windows(start_date, end_date)
GenerateMonthly ==
    /\ pc = "idle"
    /\ windows' = generate_monthly_windows(start_date, end_date)
    /\ args' = [args EXCEPT !.window_size = "monthly"]
    /\ pc' = "generated"
    /\ UNCHANGED <<client, disk, caller, env, parsing, processed_ids, last_window_end, posts,
                   start_date, end_date, i, submissions, total_posts, ghosts>>

\* TimeWindowGenerator.generate_yearly_windows(start_date, end_date)
GenerateYearly ==
    /\ pc = "idle"
    /\ windows' = generate_yearly_windows(start_date, end_date)
    /\ args' = [args EXCEPT !.window_size = "yearly"]
    /\ pc' = "generated"
    /\ UNCHANGED <<client, disk, caller, env, parsing, processed_ids, last_window_end, posts,
                   start_date, end_date, i, submissions, total_posts, ghosts>>

NextWin == GenerateMonthly \/ GenerateYearly

SpecWin == InitWin /\ [][NextWin]_vars


(***************************************************************************)
(* IncrementalExporter on its own: a fresh exporter on a path with no      *)
(* file, then add_post and save in any order, nothing interrupting them.   *)
(***************************************************************************)
\* add_post calls on one exporter.
MaxAdds == 30

\* The n-th post of the exporter test: url ".../comments/{n}".
TestPost(n) == [url |-> n, date |-> Now]

InitExporter ==
    /\ Fresh
    /\ start_date = NoneDT
    /\ end_date = NoneDT
    /\ listing = ShortListing
    /\ anonymous = FALSE
    /\ ClientLimiter(anonymous)
    /\ SearchFresh
    /\ ParseFresh

\* IncrementalExporter.save as one step: nothing on an empty buffer, else
\* the whole buffer written to the temporary path and moved over the output.
save(ps, out) == IF ps = <<>> THEN out ELSE CompleteSheet(ps)

\* exporter.add_post(post): the append, and save() when the length of the
\* buffer is a multiple of SaveEvery.
ExporterAddPost(post) ==
    /\ pc = "idle"
    /\ Len(posts) < MaxAdds
    /\ posts' = Append(posts, post)
    /\ output_file' = IF FlushDue(Len(posts')) THEN save(posts', output_file)
                      ELSE output_file
    /\ UNCHANGED <<client, checkpoint_file, temp_file, pc, caller, env, parsing, args,
                   processed_ids, last_window_end, start_date, end_date,
                   windows, i, submissions, total_posts, ghosts>>

\* exporter.save() called by the user of the exporter ("Force save").
ExporterSave ==
    /\ pc = "idle"
    /\ output_file' = save(posts, output_file)
    /\ UNCHANGED <<client, checkpoint_file, temp_file, pc, caller, env, parsing, memory,
                   ghosts>>

NextExporter ==
    \/ ExporterAddPost(TestPost(Len(posts)))
    \/ ExporterSave

SpecExporter == InitExporter /\ [][NextExporter]_vars


(***************************************************************************)
(* RateLimitHandler on its own: any order of calls, for the three          *)
(* constructions of the source and for small delays with base <= max.      *)
(***************************************************************************)
\* Largest delay of the small constructions.
DelayRange == 3

\* wait() calls followed without a reset_delay().
MaxRequests == 4

\* (base_delay, max_delay): the two clients, the test, and the small ones.
LimiterConfigs ==
    {<<DefaultBaseDelay, DefaultMaxDelay>>, <<AnonymousBaseDelay, DefaultMaxDelay>>,
     <<1, 10>>}
    \cup {<<b, m>> : b \in 1..DelayRange, m \in 1..DelayRange}

InitLimiter ==
    /\ Fresh
    /\ start_date = NoneDT
    /\ end_date = NoneDT
    /\ listing = ShortListing
    /\ anonymous = FALSE
    /\ SearchFresh
    /\ ParseFresh
    /\ \E c \in {d \in LimiterConfigs : d[1] <= d[2]} : LimiterNew(c[1], c[2])

CallWait ==
    /\ request_count < MaxRequests
    /\ wait
    /\ UNCHANGED <<disk, pc, caller, env, parsing, memory, ghosts, search>>

CallHandleRateLimit ==
    /\ handle_rate_limit
    /\ UNCHANGED <<disk, pc, caller, env, parsing, memory, ghosts, search>>

CallResetDelay ==
    /\ reset_delay
    /\ UNCHANGED <<disk, pc, caller, env, parsing, memory, ghosts, search>>

NextLimiter == CallWait \/ CallHandleRateLimit \/ CallResetDelay

SpecLimiter == InitLimiter /\ [][NextLimiter]_vars

(***************************************************************************)
(* search_time_window of the two clients, one network request at a time.   *)
(* The upstream answers each request with a page, with a rate-limit signal *)
(* or with a failure.  A page holds k records inside the window, may hold  *)
(* a record older than the window's start, and may be followed by more.    *)
(***************************************************************************)
\* Calls of search_time_window that are followed.
MaxCalls == 3

\* Pages the upstream holds for the authenticated client's search (the
\* loop's own limit of 10000 records checked lies beyond them).
MaxPages == 3

\* Records of one page that fall inside the window.
MaxPerPage == 1

Page(k, older, more) == [k |-> k, older |-> older, more |-> more]

Pages == {Page(k, o, m) : k \in 0..MaxPerPage, o \in BOOLEAN, m \in BOOLEAN}

InitClient ==
    /\ Fresh
    /\ start_date = NoneDT
    /\ end_date = NoneDT
    /\ listing = ShortListing
    /\ anonymous \in BOOLEAN
    /\ ClientLimiter(anonymous)
    /\ SearchFresh
    /\ ParseFresh

\* The orchestrator calls client.search_time_window for a window.
CallSearch ==
    /\ UNCHANGED posts_checked
    /\ cpc = "ready"
    /\ calls < MaxCalls
    /\ calls' = calls + 1
    /\ attempts' = 0
    /\ all_results' = 0
    /\ outcome' = NoOutcome
    /\ failure' = "none"
    /\ rate_limited' = FALSE
    /\ cpc' = IF anonymous THEN "wait" ELSE "request"
    /\ UNCHANGED <<disk, pc, caller, env, parsing, memory, ghosts, limiter, waited>>

\* AnonymousRedditClient: "while attempts < max_attempts:
\* self.rate_limiter.wait()"
AnonWait ==
    /\ UNCHANGED posts_checked
    /\ cpc = "wait"
    /\ anonymous
    /\ attempts < max_attempts
    /\ wait
    /\ waited' = TRUE
    /\ cpc' = "request"
    /\ UNCHANGED <<disk, pc, caller, env, parsing, memory, ghosts, attempts,
                   all_results, outcome, calls, failure, rate_limited>>

\* AnonymousRedditClient: session.get returns a page.  Its records inside
\* the window are collected; a record older than the start, a page without
\* an "after" token or the last allowed page ends the loop, and then
\* reset_delay() is called and the results are returned.
AnonPage(page) ==
    /\ UNCHANGED posts_checked
    /\ cpc = "request"
    /\ anonymous
    /\ waited' = FALSE
    /\ all_results' = all_results + page.k
    /\ IF page.older \/ ~page.more \/ attempts + 1 >= max_attempts
       THEN /\ reset_delay
            /\ outcome' = List(all_results')
            /\ cpc' = "ready"
            /\ UNCHANGED attempts
       ELSE /\ attempts' = attempts + 1
            /\ cpc' = "wait"
            /\ UNCHANGED <<limiter, outcome>>
    /\ UNCHANGED <<disk, pc, caller, env, parsing, memory, ghosts, calls, failure,
                   rate_limited>>

\* AnonymousRedditClient: the request fails.  raise_for_status() raises on
\* an HTTP error status, 429 included, session.get raises on a network
\* error, response.json() on a malformed body: every one of them ends in
\* "except ...: return []".
AnonFails(kind) ==
    /\ UNCHANGED posts_checked
    /\ cpc = "request"
    /\ anonymous
    /\ kind \in {"ratelimit", "transport"}
    /\ waited' = FALSE
    /\ failure' = kind
    /\ outcome' = List(0)
    /\ cpc' = "ready"
    /\ UNCHANGED <<disk, pc, caller, env, parsing, memory, ghosts, limiter, attempts,
                   all_results, calls, rate_limited>>

\* RedditClient: the generator of sub.search fetches a page and the loop
\* scans its submissions; a submission older than the start or the end of
\* the listing ends the loop and the results are returned.
AuthPage(page) ==
    /\ UNCHANGED posts_checked
    /\ cpc = "request"
    /\ ~anonymous
    /\ page.more => attempts + 1 < MaxPages
    /\ waited' = FALSE
    /\ all_results' = all_results + page.k
    /\ IF page.older \/ ~page.more
       THEN /\ outcome' = List(all_results')
            /\ cpc' = "ready"
            /\ UNCHANGED attempts
       ELSE /\ attempts' = attempts + 1
            /\ UNCHANGED <<cpc, outcome>>
    /\ UNCHANGED <<disk, pc, caller, env, parsing, memory, ghosts, limiter, calls,
                   failure, rate_limited>>

\* RedditClient: the request fails.  A RedditAPIException that names
\* RATELIMIT goes to the backoff, any other RedditAPIException is raised
\* again, every other exception ends in "except Exception: return []".
AuthFails(kind) ==
    /\ UNCHANGED posts_checked
    /\ cpc = "request"
    /\ ~anonymous
    /\ kind \in {"ratelimit", "api_error", "transport"}
    /\ waited' = FALSE
    /\ failure' = kind
    /\ cpc' = IF kind = "ratelimit" THEN "backoff" ELSE "ready"
    /\ outcome' = IF kind = "ratelimit" THEN outcome
                  ELSE IF kind = "api_error" THEN Raised ELSE List(0)
    /\ UNCHANGED <<disk, pc, caller, env, parsing, memory, ghosts, limiter, attempts,
                   all_results, calls, rate_limited>>

\* RedditClient: handle_rate_limit(), then "return self.search_time_window(
\* ...)": the search of the same window starts again from its first page.
\* The call is a tail call that no counter guards; the frames it piles up
\* hold nothing the search reads, and the interpreter's recursion limit,
\* about a thousand nested calls away, is no part of the source.
AuthBackoff ==
    /\ UNCHANGED posts_checked
    /\ cpc = "backoff"
    /\ handle_rate_limit
    /\ rate_limited' = TRUE
    /\ failure' = "none"
    /\ attempts' = 0
    /\ all_results' = 0
    /\ cpc' = "request"
    /\ UNCHANGED <<disk, pc, caller, env, parsing, memory, ghosts, outcome, calls,
                   waited>>

NextClient ==
    \/ CallSearch
    \/ AnonWait
    \/ \E page \in Pages : AnonPage(page)
    \/ \E kind \in {"ratelimit", "transport"} : AnonFails(kind)
    \/ \E page \in Pages : AuthPage(page)
    \/ \E kind \in {"ratelimit", "api_error", "transport"} : AuthFails(kind)
    \/ AuthBackoff

SpecClient == InitClient /\ [][NextClient]_vars

\* The client is scheduled as long as it has a step to take.
SpecClientLive == SpecClient /\ WF_vars(NextClient)

(***************************************************************************)
(* RedditClient.search_time_window submission by submission: one call over *)
(* a stream ordered newest first, that is submissions newer than the       *)
(* window end, then submissions inside the window, then older ones.  The   *)
(* streams are those of newer submissions alone and those with at most     *)
(* MaxNewer newer submissions ahead of the others.                         *)
(***************************************************************************)
\* "if posts_checked > 10000: break"
SafetyLimit == 10000

\* Newer submissions ahead of the first submission inside the window.
MaxNewer == 2

\* Submissions the upstream yields at most.
MaxExamined == 10003

InitScan ==
    /\ Fresh
    /\ start_date = NoneDT
    /\ end_date = NoneDT
    /\ listing = ShortListing
    /\ anonymous = FALSE
    /\ ClientLimiter(anonymous)
    /\ SearchFresh
    /\ ParseFresh

\* "if posts_checked > 10000: break", n being posts_checked.
SafetyCheck(n) == n > SafetyLimit

\* search_time_window is called: results = [], posts_checked = 0.
ScanStart ==
    /\ cpc = "ready"
    /\ outcome = NoOutcome
    /\ cpc' = "scan"
    /\ calls' = calls + 1
    /\ posts_checked' = 0
    /\ all_results' = 0
    /\ UNCHANGED <<disk, pc, caller, env, parsing, memory, ghosts, limiter, attempts,
                   outcome, waited, failure, rate_limited>>

\* A submission newer than the window end: "continue", which passes over
\* the rest of the loop body, the safety check included.
ScanNewer ==
    /\ cpc = "scan"
    /\ all_results = 0
    /\ posts_checked < MaxExamined
    /\ posts_checked' = posts_checked + 1
    /\ UNCHANGED <<disk, pc, caller, env, parsing, memory, ghosts, limiter, cpc,
                   attempts, all_results, outcome, calls, waited, failure,
                   rate_limited>>

\* A submission inside the window: appended, then the safety check.
ScanInside ==
    /\ cpc = "scan"
    /\ posts_checked - all_results <= MaxNewer
    /\ posts_checked < MaxExamined
    /\ posts_checked' = posts_checked + 1
    /\ all_results' = all_results + 1
    /\ IF SafetyCheck(posts_checked')
       THEN /\ outcome' = List(all_results')
            /\ cpc' = "ready"
       ELSE UNCHANGED <<cpc, outcome>>
    /\ UNCHANGED <<disk, pc, caller, env, parsing, memory, ghosts, limiter, attempts,
                   calls, waited, failure, rate_limited>>

\* A submission older than the window start: "break", the results are
\* returned.
ScanOlder ==
    /\ cpc = "scan"
    /\ posts_checked < MaxExamined
    /\ posts_checked' = posts_checked + 1
    /\ outcome' = List(all_results)
    /\ cpc' = "ready"
    /\ UNCHANGED <<disk, pc, caller, env, parsing, memory, ghosts, limiter, attempts,
                   all_results, calls, waited, failure, rate_limited>>

\* The stream is exhausted: the for loop ends and the results are returned.
ScanExhausted ==
    /\ cpc = "scan"
    /\ outcome' = List(all_results)
    /\ cpc' = "ready"
    /\ UNCHANGED <<disk, pc, caller, env, parsing, memory, ghosts, limiter, attempts,
                   all_results, calls, waited, failure, rate_limited,
                   posts_checked>>

NextScan ==
    \/ ScanStart
    \/ ScanNewer
    \/ ScanInside
    \/ ScanOlder
    \/ ScanExhausted

SpecScan == InitScan /\ [][NextScan]_vars

(***************************************************************************)
(* PostParser on its own: one raw record of either shape, normalized once. *)
(***************************************************************************)
\* Top-level comments of a submission, and replies under one of them.
MaxTopLevel == 2
MaxReplies == 1

\* Sequences over S of length at most n.
UpTo(S, n) == UNION {[1..k -> S] : k \in 0..n}

\* A reply: read or not, no replies of its own.
ReplyComments ==
    {[author |-> Str("bob"), body |-> b, replies |-> <<>>] :
        b \in {Str("re"), Unreadable}}

\* A top-level comment: author deleted or not, body read or not, replies.
TopComments ==
    {[author |-> a, body |-> b, replies |-> r] :
        a \in {None, Str("alice")}, b \in {Str("hi"), Unreadable},
        r \in UpTo(ReplyComments, MaxReplies)}

\* PRAW submissions: the author deleted or not, a comment forest, and
\* whether some attribute access or replace_more raises.
RichRecords ==
    {[shape |-> "rich", author |-> a, created_utc |-> Timestamp(Now),
      comments |-> f, raises |-> x] :
        a \in {None, Str("carol")}, f \in UpTo(TopComments, MaxTopLevel),
        x \in BOOLEAN}

\* JSON dictionaries: "author" absent, null or a name; "created_utc" absent
\* or a number.
FlatRecords ==
    {[shape |-> "flat", author |-> a, created_utc |-> c] :
        a \in {Absent, Present(None), Present(Str("dave"))},
        c \in {Absent, Present(Timestamp(Now))}}

InitParse ==
    /\ Fresh
    /\ start_date = NoneDT
    /\ end_date = NoneDT
    /\ listing = ShortListing
    /\ anonymous = FALSE
    /\ ClientLimiter(anonymous)
    /\ SearchFresh
    /\ raw \in RichRecords \cup FlatRecords
    /\ parsed = NotParsed

\* parser.parse_submission(submission) on a PRAW object.
ParseRich ==
    /\ parsed.kind = "pending"
    /\ raw.shape = "rich"
    /\ parsed' = parse_submission(raw)
    /\ UNCHANGED <<disk, pc, caller, env, raw, memory, ghosts, client>>

\* parser.parse_submission(submission) on a dictionary.
ParseFlat ==
    /\ parsed.kind = "pending"
    /\ raw.shape = "flat"
    /\ parsed' = parse_submission(raw)
    /\ UNCHANGED <<disk, pc, caller, env, raw, memory, ghosts, client>>

NextParse == ParseRich \/ ParseFlat

SpecParse == InitParse /\ [][NextParse]_vars

(***************************************************************************)
(* Properties                                                              *)
(***************************************************************************)
Urls(ps) == [n \in 1..Len(ps) |-> ps[n].url]

\* The process is between add_post and mark_processed of the head record.
Adding == pc = "mark" \/ (pc \in SavePcs /\ caller = "add_post")

\* C1: no identifier occurs twice among the posts of the sink, of the output
\* file or of its temporary file, and a record handed to the sink is one whose
\* identifier was not in processed_ids.
C1_NoDuplicatePosts ==
    /\ NoDup(Urls(posts))
    /\ NoDup(Urls(output_file.rows))
    /\ NoDup(Urls(temp_file.rows))
    /\ Adding => Head(submissions).id \notin processed_ids

\* A record came back a second time, was skipped, and is in the output once.
C1_Witness ==
    \E id \in skipped :
        /\ id \in Range(Urls(posts))
        /\ id \in Range(Urls(output_file.rows))

\* C2: when a resumed run has sunk posts and its _finalize has flushed the
\* sink, every post the output file held when the run started is still in it.
C2_SunkRecordsSurvive ==
    (/\ pc = "ckpt_open"
     /\ caller \in {"finalize", "except"}
     /\ loaded_window_end # NoneDT
     /\ posts # <<>>)
    => out_at_start \subseteq Range(Urls(output_file.rows))

\* C3: the destination is never a partial file, and it changes only by the
\* replace step of save(), to the complete buffer that the temporary file
\* then holds.
C3_SaveIsAtomic ==
    /\ [](output_file.kind \in {"missing", "complete"})
    /\ [][output_file' # output_file =>
            /\ pc = "save_replace"
            /\ temp_file = CompleteSheet(posts)
            /\ output_file' = CompleteSheet(posts)]_vars

\* The process was killed while save() was writing, with an earlier version
\* of the output on disk.
C3_Witness ==
    /\ pc = "crashed"
    /\ temp_file.kind = "partial"
    /\ output_file.kind = "complete"

\* C4: a run that has ended, normally or by an interrupt, has called
\* _finalize exactly once, and no window is queried once _finalize was called.
C4_FinalizeExactlyOnce ==
    /\ pc \in {"done", "interrupted"} => finalize_calls = 1
    /\ pc = "search" => finalize_calls = 0

\* C5: the generated windows are ordered, contiguous and cover [start, end):
\* the first starts at start, the last ends at end, each ends where the next
\* starts, and each has start < end.
C5_WindowsCoverRange ==
    pc = "generated" =>
        /\ Len(windows) >= 1
        /\ windows[1][1] = start_date
        /\ windows[Len(windows)][2] = end_date
        /\ \A n \in 1..Len(windows) : Before(windows[n][1], windows[n][2])
        /\ \A n \in 1..(Len(windows) - 1) : windows[n][2] = windows[n + 1][1]

\* A range that starts inside a month and is cut into several windows.
C5_Witness ==
    /\ pc = "generated"
    /\ Len(windows) >= 3
    /\ start_date.day # 1
    /\ end_date.day # 1

\* C6: a freshly constructed ProgressTracker answers is_processed with true
\* for exactly the identifiers that were in processed_ids at the last
\* completed save_checkpoint.
C6_LedgerRoundTrip ==
    pc = "resolve" =>
        \A id \in Ids : IsProcessed(processed_ids, id) <=> id \in persisted_ids

\* A restart that loaded some identifiers, with others never marked.
C6_Witness ==
    /\ pc = "resolve"
    /\ persisted_ids # {}
    /\ \E n \in 1..Len(listing) : listing[n].id \notin persisted_ids

\* C7: when update_window(t) has returned, the checkpoint file holds t and
\* the whole of processed_ids; a restart loads what was last written, and a
\* run that loaded t queries no window that ends at or before t.
C7_UpdateWindowPersists ==
    /\ (pc = "loop" /\ last_commit # NoneDT) =>
          /\ checkpoint_file.kind = "json"
          /\ LoadWindowEnd(checkpoint_file) = last_commit
          /\ LoadIds(checkpoint_file) = processed_ids
    /\ pc = "resolve" => last_window_end = persisted_window_end
    /\ (pc = "search" /\ loaded_window_end # NoneDT) =>
          /\ Before(loaded_window_end, windows[i][2])
          /\ ~Before(windows[i][1], loaded_window_end)

\* A restarted run, resumed from a committed window end, queries a window.
C7_Witness ==
    /\ pc = "search"
    /\ runs = 2
    /\ loaded_window_end # NoneDT
    /\ loaded_window_end = persisted_window_end

\* C8: across restarts no record is accepted (sunk and marked) twice.
C8_AtMostOncePerRecord == \A id \in Ids : accepted[id] <= 1

\* C9: constructing a ProgressTracker never fails, whatever the state of the
\* checkpoint file.
C9_LoadIsBestEffort == pc # "fatal"

C11_WindowFailureNotFatal ==
    /\ [][(pc = "search" /\ pc' = "loop") =>
            /\ i' = i + 1
            /\ UNCHANGED <<last_window_end, checkpoint_file, windows,
                           processed_ids, posts, finalize_calls>>]_vars
    /\ [][(pc = "loop" /\ pc' = "search") => (i' = i /\ i <= Len(windows))]_vars
    /\ [][(pc = "loop" /\ pc' = "finalize") => i > Len(windows)]_vars

\* A run in which a window failed has committed its last window and is in
\* _finalize after the loop.
C11_Witness ==
    /\ pc = "finalize"
    /\ caller = "finalize"
    /\ window_failed
    /\ Len(windows) >= 2
    /\ last_commit = windows[Len(windows)][2]

\* C20: when the records of a window have all been handled, every record
\* that normalizes is marked processed, every record that normalizes and was
\* not processed before is in the sink, a record that fails to normalize is
\* neither marked nor sunk, and the next step commits the window's end.
C20_ParseFailureSkipsOneRecord ==
    /\ [][(pc = "records" /\ submissions # <<>> /\ pc' = "records") =>
            /\ submissions' = Tail(submissions)
            /\ UNCHANGED <<posts, processed_ids>>]_vars
    /\ []((pc = "records" /\ submissions = <<>>) =>
            \A n \in 1..Len(returned) :
               LET r == returned[n] IN
               IF r.parses
               THEN /\ r.id \in processed_ids
                    /\ (r.id \in persisted_ids \/ r.id \in Range(Urls(posts)))
               ELSE /\ r.id \notin processed_ids
                    /\ r.id \notin Range(Urls(posts)))
    /\ [][(pc = "records" /\ submissions = <<>> /\ pc' \in CkptPcs) =>
            last_window_end' = windows[i][2]]_vars

\* The end of a window is committed in which a record failed to normalize
\* and a record behind it was sunk and marked.
C20_Witness ==
    /\ pc = "loop"
    /\ last_commit # NoneDT
    /\ \E n \in 1..Len(listing) : \E m \in (n + 1)..Len(listing) :
          /\ ~listing[n].parses
          /\ ~Before(last_commit, FromTimestamp(listing[n].created_utc))
          /\ listing[m].parses
          /\ listing[m].id \in Range(Urls(posts))
          /\ listing[m].id \in processed_ids
          /\ listing[m].id \notin skipped

\* C15: in every state reached by calls of wait, handle_rate_limit and
\* reset_delay on a handler constructed with base_delay <= max_delay,
\* base_delay <= current_delay <= max_delay.
C15_DelayWithinBounds ==
    /\ base_delay <= current_delay
    /\ current_delay <= max_delay

\* A backoff was cut at max_delay, below twice the delay before it.
C15_Witness ==
    /\ last_op = "handle_rate_limit"
    /\ base_delay < max_delay
    /\ current_delay = max_delay
    /\ current_delay < 2 * prev_delay

\* C16: handle_rate_limit sleeps for the current_delay it found and leaves
\* min(2 * current_delay, max_delay), which is larger than what it found
\* unless that was max_delay already; reset_delay leaves base_delay.
C16_BackoffDoublesResetRestores ==
    /\ last_op = "handle_rate_limit" =>
          /\ last_sleep = prev_delay
          /\ current_delay = Min(2 * prev_delay, max_delay)
          /\ prev_delay < max_delay => current_delay > prev_delay
          /\ prev_delay = max_delay => current_delay = max_delay
    /\ last_op = "reset_delay" => current_delay = base_delay

\* reset_delay was called on a handler that two backoffs had raised.
C16_Witness ==
    /\ last_op = "reset_delay"
    /\ prev_delay >= 4 * base_delay
    /\ current_delay = base_delay

\* C12: a call that ends without a failure of the upstream returns a list
\* (an empty one when no record matched), and a call that a transport
\* failure ended raises, so that its caller can tell it from an empty window.
C12_FailureIsSignalled ==
    /\ (cpc = "ready" /\ calls > 0 /\ failure = "none") => outcome.kind = "list"
    /\ (cpc = "ready" /\ failure = "transport") => outcome = Raised

\* C13: a rate-limit signal of the upstream is always followed by
\* handle_rate_limit() and a new search of the same window; it never ends
\* the call.
C13_RateLimitBacksOff ==
    /\ failure = "ratelimit" => cpc = "backoff"
    /\ cpc = "backoff" => failure = "ratelimit"

C17_DelayResetAfterCleanWindow ==
    (cpc = "ready" /\ outcome.kind = "list" /\ failure = "none" /\ ~rate_limited)
    => current_delay = base_delay

\* C18: whenever a request is about to be issued, wait() has been called
\* since the request before it.
C18_WaitBeforeEveryRequest == cpc = "request" => waited

\* C19: the wait() calls in a row that return without sleeping never reach
\* the count up to which they are followed.
C19_BurstBounded == burst < MaxBurst

\* A record that a search of the run returned and that was created before
\* last_window_end.
RetrievedBefore(r) ==
    /\ r \in retrieved
    /\ last_window_end # NoneDT
    /\ Before(FromTimestamp(r.created_utc), last_window_end)

\* C21, as stated: whenever last_window_end is set, every record that a
\* search of the run returned and that was created before last_window_end
\* has its identifier in processed_ids.
C21_RetrievedAreProcessed ==
    \A r \in retrieved : RetrievedBefore(r) => r.id \in processed_ids

\* C21, amended: the same for every such record that normalizes; a record
\* the parser rejects is skipped and never marked.
C21_ParsedRetrievedAreProcessed ==
    \A r \in retrieved : (RetrievedBefore(r) /\ r.parses) => r.id \in processed_ids

\* A window end is committed behind a record that was returned and marked
\* and behind one that was returned and rejected by the parser.
C21_Witness ==
    /\ last_commit # NoneDT
    /\ \E r \in retrieved : RetrievedBefore(r) /\ r.parses /\ r.id \in processed_ids
    /\ \E r \in retrieved : RetrievedBefore(r) /\ ~r.parses

\* add_post has just returned from the save() of a SaveEvery-th post.
FlushJustDone ==
    /\ pc = "mark"
    /\ caller = "add_post"
    /\ FlushDue(Len(posts))

\* C22: each time the sink flushes during the window loop (every 10th
\* accepted record), the identifiers marked so far are also in the checkpoint
\* file, not only when a window end is committed.
C22_LedgerPersistedAtFlush ==
    FlushJustDone => processed_ids \subseteq LoadIds(checkpoint_file)

\* posts with one more post added.
Added == Len(posts') = Len(posts) + 1

\* s is the beginning of t.
IsPrefix(s, t) == Len(s) <= Len(t) /\ \A n \in 1..Len(s) : s[n] = t[n]

\* C23: on a fresh exporter an addition flushes exactly when it is the 10th,
\* 20th, 30th, ... one, a flush writes every post added so far in insertion
\* order, and so at most 9 added posts are not in the output file.
C23_FlushOnEveryTenthAddition ==
    /\ [](/\ IsPrefix(output_file.rows, posts)
          /\ Len(posts) - Len(output_file.rows) <= 9)
    /\ [][Added => /\ (output_file' # output_file) <=> (Len(posts') % 10 = 0)
                   /\ (output_file' # output_file) =>
                         output_file' = CompleteSheet(posts')]_vars

C23_Witness ==
    /\ Len(posts) = 29
    /\ output_file = CompleteSheet(SubSeq(posts, 1, 20))
    /\ NoDup(posts)

\* The interrupt handler of the window loop is at work.
Cancelling == Running /\ caller = "except"

\* The handler's _finalize writes the checkpoint and the interrupt is raised
\* again.
CancelCompletes ==
    /\ pc = "ckpt_dump"
    /\ caller = "except"
    /\ checkpoint_file' # checkpoint_file

\* The window end of the last update_window that returned, or the one loaded
\* at the start when none has returned in this run.
LastCommitted == IF last_commit # NoneDT THEN last_commit ELSE loaded_window_end

\* What a cancellation leaves behind, whatever last_window_end is.
CancelPreserves ==
    /\ [][(caller' = "except" /\ Running') =>
              UNCHANGED <<posts, processed_ids, last_window_end>>]_vars
    /\ [][CancelCompletes =>
              /\ pc' = "interrupted"
              /\ posts # <<>> => output_file' = CompleteSheet(posts)
              /\ checkpoint_file'.kind = "json"
              /\ LoadIds(checkpoint_file') = processed_ids
              /\ LoadWindowEnd(checkpoint_file') = last_window_end]_vars

\* C24 as stated: an interrupt during a window flushes the sink with every
\* post accepted so far, persists the ledger with every identifier marked so
\* far and with last_window_end at the last committed window boundary, and
\* is raised again.
C24_CancelKeepsLastCommitted ==
    /\ CancelPreserves
    /\ [](Cancelling => last_window_end = LastCommitted)

\* C24, amended: the same, last_window_end being the last committed window
\* boundary or, when the interrupt arrived inside update_window, the end of
\* the window whose records have all been handled and whose commit was under
\* way.
C24_CancelIsGraceful ==
    /\ CancelPreserves
    /\ [](Cancelling =>
            \/ last_window_end = LastCommitted
            \/ /\ i <= Len(windows)
               /\ last_window_end = windows[i][2]
               /\ submissions = <<>>)

C24_Witness ==
    /\ pc = "ckpt_dump"
    /\ caller = "except"
    /\ Len(posts) > 0
    /\ output_file = CompleteSheet(posts)
    /\ processed_ids # {}
    /\ last_commit # NoneDT
    /\ last_window_end = last_commit

\* Midnight of the first day of a month.
FirstOfMonth(d) == d.day = 1 /\ d.tod = 0

\* Months counted from year 0, and the first day of month number k.
MonthNumber(d) == d.year * 12 + (d.month - 1)
MonthStart(k)  == DT(k \div 12, (k % 12) + 1, 1, 0)

\* Later of two datetimes.
MaxDT(a, b) == IF Before(a, b) THEN b ELSE a

\* Last calendar year that has a moment in [start, e).
LastYear(e) == IF e.month = 1 /\ FirstOfMonth(e) THEN e.year - 1 ELSE e.year

\* C25: for start < end both at midnight of a first of the month, the monthly
\* windows are the calendar months of [start, end), one each, and the yearly
\* windows are the calendar years that intersect [start, end), one each, cut
\* to the range; 2023-01-01 to 2023-06-01 gives 5 monthly windows and 1
\* yearly window, and the first window starts at start.
C25_OneWindowPerMonthOrYear ==
    (pc = "generated" /\ FirstOfMonth(start_date) /\ FirstOfMonth(end_date)) =>
        /\ windows[1][1] = start_date
        /\ args.window_size = "monthly" =>
              /\ Len(windows) = MonthNumber(end_date) - MonthNumber(start_date)
              /\ \A n \in 1..Len(windows) :
                    windows[n] = <<MonthStart(MonthNumber(start_date) + n - 1),
                                   MonthStart(MonthNumber(start_date) + n)>>
        /\ args.window_size = "yearly" =>
              /\ Len(windows) = LastYear(end_date) - start_date.year + 1
              /\ \A n \in 1..Len(windows) :
                    windows[n] =
                      <<MaxDT(start_date, DT(start_date.year + n - 1, 1, 1, 0)),
                        MinDT(end_date, DT(start_date.year + n, 1, 1, 0))>>
        /\ (start_date = DT(2023, 1, 1, 0) /\ end_date = DT(2023, 6, 1, 0)) =>
              Len(windows) = IF args.window_size = "monthly" THEN 5 ELSE 1

C25_Witness ==
    /\ pc = "generated"
    /\ start_date = DT(2023, 1, 1, 0)
    /\ end_date = DT(2023, 6, 1, 0)
    /\ args.window_size = "monthly"
    /\ Len(windows) = 5

\* C26: one call of the authenticated search examines at most 10,000
\* submissions, whatever the stream, streams of submissions newer than the
\* window end included.
C26_ExaminesAtMostSafetyCap == posts_checked <= 10000

\* C27: windows are half-open: every record search_time_window(start, end)
\* returns has start <= created_at < end, so that a record on the boundary
\* of two adjacent windows is returned for one of them only.
C27_WindowsHalfOpen ==
    pc = "records" =>
        \A n \in 1..Len(returned) :
            LET created_at == FromTimestamp(returned[n].created_utc) IN
              /\ ~Before(created_at, windows[i][1])
              /\ Before(created_at, windows[i][2])

\* The raw record's author is missing or null.
AuthorMissing(submission) ==
    IF submission.shape = "flat"
    THEN ~submission.author.present \/ submission.author.value = None
    ELSE submission.author = None

\* C28: for a raw record of either shape, the normalized post's author is a
\* string, and it is "[deleted]" whenever the raw author is missing or null.
C28_AuthorIsString ==
    parsed.kind = "post" =>
        /\ parsed.user.type = "str"
        /\ AuthorMissing(raw) => parsed.user = Str("[deleted]")

\* The comments of a forest, every depth included: each comment followed by
\* its replies, or level by level.
RECURSIVE DepthFirst(_)
DepthFirst(comments) ==
    IF comments = <<>> THEN <<>>
    ELSE <<Head(comments)>> \o DepthFirst(Head(comments).replies)
            \o DepthFirst(Tail(comments))

RECURSIVE Children(_)
Children(comments) ==
    IF comments = <<>> THEN <<>>
    ELSE Head(comments).replies \o Children(Tail(comments))

RECURSIVE BreadthFirst(_)
BreadthFirst(comments) ==
    IF comments = <<>> THEN <<>>
    ELSE comments \o BreadthFirst(Children(comments))

\* C29: the comment text of a rich record has one "author\nbody" entry for
\* every comment of the tree whose body can be read, replies at every depth
\* included, in the order of a traversal of the forest, joined by a blank
\* line, a missing author being "[deleted]".
C29_CommentTreeFlattened ==
    (parsed.kind = "post" /\ raw.shape = "rich") =>
        \/ parsed.text_comments = Join("\n\n", Entries(DepthFirst(raw.comments)))
        \/ parsed.text_comments = Join("\n\n", Entries(BreadthFirst(raw.comments)))

\* C30: a flat record without created_utc normalizes to a post, and its
\* timestamp is the one of epoch zero, whatever else the record holds.
C30_MissingTimestampFallsBack ==
    (parsed.kind # "pending" /\ raw.shape = "flat" /\ ~raw.created_utc.present) =>
        /\ parsed.kind = "post"
        /\ parsed.date = FromTimestamp(0)
        /\ parsed.date = DT(1970, 1, 1, 0)

C30_Witness ==
    /\ raw.shape = "flat"
    /\ ~raw.created_utc.present
    /\ parsed.kind = "post"
    /\ raw.author = Present(Str("dave"))

\* A step of one run: the process is alive before and after it.
SameRun == Running /\ Running'

\* C31: the windows are queried one at a time in strictly increasing start
\* order; the records of a window are handled in the order the client
\* returned them; a window's end is committed only when every record
\* returned for it has been handled, and before the next window is queried;
\* last_window_end never decreases during a run.
C31_WindowProtocolOrder ==
    /\ [](pc = "search" =>
            /\ i \in 1..Len(windows)
            /\ \A n \in 1..(Len(windows) - 1) :
                  Before(windows[n][1], windows[n + 1][1])
            /\ last_window_end = LastCommitted
            /\ (i > 1 /\ ~window_failed) =>
                  /\ last_commit = windows[i - 1][2]
                  /\ LoadWindowEnd(checkpoint_file) = last_commit)
    /\ [][(SameRun /\ pc # "resolve") => i' \in {i, i + 1}]_vars
    /\ [][(SameRun /\ pc' = "search" /\ pc # "search") =>
              (pc = "loop" /\ i' = i)]_vars
    /\ [][(SameRun /\ pc \in {"records", "mark"} /\ submissions' # submissions) =>
              submissions' = Tail(submissions)]_vars
    /\ [][(SameRun /\ posts' # posts) =>
              posts' = Append(posts, ParseSubmission(Head(submissions)))]_vars
    /\ [][(SameRun /\ processed_ids' # processed_ids) =>
              processed_ids' = processed_ids \cup {Head(submissions).id}]_vars
    /\ [][(SameRun /\ last_window_end' # last_window_end) =>
              /\ pc = "records"
              /\ submissions = <<>>
              /\ last_window_end' = windows[i][2]
              /\ Before(last_window_end, last_window_end')]_vars

\* The second window is being queried, the first having been committed with
\* records accepted in it.
C31_Witness ==
    /\ pc = "search"
    /\ i > 1
    /\ ~window_failed
    /\ last_commit = windows[i - 1][2]
    /\ processed_ids # {}
    /\ Len(posts) > 0

\* C32: the committed boundary never moves past a window that failed with
\* an exception: no later commit of the run puts last_window_end beyond the
\* start of that window, so that a resumed run queries the window again.
\* A failed window lies before the current one and the starts increase, so
\* the boundary may then not lie beyond the start of the window before the
\* current one.
C32_BoundaryStaysBeforeFailedWindow ==
    window_failed => ~Before(windows[i - 1][1], last_window_end)

\* C33: wherever the process can be killed, each identifier of the
\* checkpoint file that this run has accepted belongs to a post already in
\* the output file: the ledger on disk never runs ahead of the output on
\* disk.
C33_LedgerNotAheadOfOutput ==
    Running =>
        \A id \in LoadIds(checkpoint_file) \cap Range(Urls(posts)) :
            id \in Range(Urls(output_file.rows))

\* C34: when the process is killed at any step of save_checkpoint, the
\* checkpoint file holds its complete previous content or the complete new
\* content, so that the next construction of ProgressTracker loads it.
C34_CheckpointCrashAtomic ==
    pc = "crashed" =>
        /\ checkpoint_file.kind # "corrupt"
        /\ checkpoint_file \in {MissingJson, Dump(persisted_ids, persisted_window_end)}
====
